---- MODULE Spec2Model ----
(***************************************************************************)
(* Booking admission control and payment/subscription reconciliation of    *)
(* the DubiFitness backend: routes/bookings.ts, routes/payments.ts and the *)
(* subscriptions router.  The database tables are sequences indexed by the *)
(* AUTOINCREMENT primary key; every handler is one action.                 *)
(***************************************************************************)
EXTENDS Integers, Sequences, FiniteSets, TLC

\* ------------------------------------------------------------- bounds
NumUsers == 3
NumClasses == 2
MaxCapacity == 2
MaxBookings == 4
NumOwners == 1
MaxSubscriptions == 2
\* rows the payments and subscriptions tables hold together
MaxRows == 2
MaxGateway == 1
\* requests of the bookings routes, and webhook deliveries, that overlap
NumCalls == 2
NumDeliveries == 2

Users == 1..NumUsers
ClassIds == 1..NumClasses
\* class ids a request may name: the existing ones and one that does not exist
ClassInputs == 1..(NumClasses + 1)
\* booking ids a request may name: every id the table can hold
BookingInputs == 1..MaxBookings
Owners == 1..NumOwners
\* gateway payment ids a webhook may name in data.id; 0 is a missing id
GatewayIds == 1..MaxGateway
GatewayInputs == 0..MaxGateway
CallIds == 1..NumCalls
DeliveryIds == 1..NumDeliveries

VARIABLES
    capacity,          \* classes.capacity, by class id
    isActive,          \* classes.is_active, by class id
    bookings,          \* the bookings table, row i has id i
    now,               \* the clock read by new Date() and unixepoch()
    bookingResponse,   \* the HTTP response of the last bookings request
    payments,          \* the payments table (one-off payments), row i has id i
    subscriptions,     \* the subscriptions table
    subscriptionPayments,  \* the subscription_payments table
    paymentResponse,   \* the HTTP response and log of the last payments request
    calls,             \* the bookings requests in flight: each one's position
                       \* between its database operations and what it has read
    deliveries         \* the webhook deliveries in flight, likewise

bookingVars == <<capacity, isActive, bookings, bookingResponse>>
paymentVars == <<payments, subscriptions, subscriptionPayments, paymentResponse>>
concurrentVars == <<calls, deliveries>>
vars == <<capacity, isActive, bookings, now, bookingResponse,
          payments, subscriptions, subscriptionPayments, paymentResponse,
          calls, deliveries>>

\* ------------------------------------------------------------ bookings
\* op and code are the request and its HTTP status; id is the booking the request
\* created or cancelled (0 when it failed), prior the status that booking had
\* before a cancel, promoted the waitlisted booking the cancel promoted (0: none)
NoBookingResponse ==
    [op |-> "none", id |-> 0, code |-> 0, prior |-> "none", promoted |-> 0]

BookingResponse(op, id, code, prior, promoted) ==
    [op |-> op, id |-> id, code |-> code, prior |-> prior, promoted |-> promoted]

BookingIds(bk) == 1..Len(bk)

\* db.select().from(classes).where(eq(classes.id, classId)) and the isActive test
ClassFound(c) == c \in ClassIds /\ isActive[c]

\* the ids of the rows the duplicate check selects
ExistingBooking(bk, u, c) ==
    {i \in BookingIds(bk) :
        bk[i].userId = u /\ bk[i].classId = c /\ bk[i].status = "confirmed"}

\* select count() where classId and status = 'confirmed'
CountConfirmed(bk, c) ==
    Cardinality({i \in BookingIds(bk) : bk[i].classId = c /\ bk[i].status = "confirmed"})

\* mutants of the capacity test: off by one, and no limit at all
AdmissionStatusOffByOne(currentBookings, cap) ==
    IF currentBookings > cap THEN "waitlist" ELSE "confirmed"

AdmissionStatusNoLimit(currentBookings, cap) == "confirmed"

\* a capacity test that keeps the last seat free
AdmissionStatusLastSeatKept(currentBookings, cap) ==
    IF currentBookings + 1 >= cap THEN "waitlist" ELSE "confirmed"

AdmissionStatus(currentBookings, cap) ==
    IF currentBookings >= cap THEN "waitlist" ELSE "confirmed"

\* the row the insert creates; booked_at defaults to unixepoch().  cancelled_at is
\* written and never read: the rows keep whether it is null or set.  created_at
\* and updated_at, which no handler reads, are left out of the rows.
NewBooking(u, c, status, t) ==
    [userId |-> u, classId |-> c, status |-> status,
     bookedAt |-> t, cancelledAt |-> "null"]

\* POST /bookings
\* An insert is stamped with the clock and the clock moves on: two bookings are
\* never inserted in the same second.
CreateReservation(u, c) ==
    /\ UNCHANGED <<capacity, isActive>>
    /\ UNCHANGED paymentVars
    /\ UNCHANGED concurrentVars
    /\ IF ~ClassFound(c)
       THEN /\ bookingResponse' = BookingResponse("create", 0, 404, "none", 0)
            /\ UNCHANGED <<bookings, now>>
       ELSE IF ExistingBooking(bookings, u, c) # {}
       THEN /\ bookingResponse' = BookingResponse("create", 0, 400, "none", 0)
            /\ UNCHANGED <<bookings, now>>
       ELSE LET status == AdmissionStatus(CountConfirmed(bookings, c), capacity[c]) IN
            /\ Len(bookings) < MaxBookings
            /\ bookings' = Append(bookings, NewBooking(u, c, status, now))
            /\ now' = now + 1
            /\ bookingResponse' =
                   BookingResponse("create", Len(bookings) + 1, 201, "none", 0)

\* update bookings set status = 'cancelled', cancelledAt, updatedAt where id
CancelRow(bk, id) ==
    [bk EXCEPT ![id].status = "cancelled", ![id].cancelledAt = "set"]

\* the rows select ... where classId and status = 'waitlist' limit 1 may return:
\* the query has no ORDER BY, so the engine may yield any matching row first
WaitlistBooking(bk, c) ==
    {i \in BookingIds(bk) : bk[i].classId = c /\ bk[i].status = "waitlist"}

\* mutant of the promotion: a row that no longer waits is replaced by one of
\* its class that does
PromoteRowStillWaiting(bk, id) ==
    LET waiting == WaitlistBooking(bk, bk[id].classId) IN
    IF bk[id].status = "waitlist" \/ waiting = {}
    THEN [bk EXCEPT ![id].status = "confirmed"]
    ELSE [bk EXCEPT ![CHOOSE w \in waiting : TRUE].status = "confirmed"]

\* update bookings set status = 'confirmed', updatedAt where id
PromoteRow(bk, id) ==
    [bk EXCEPT ![id].status = "confirmed"]

\* mutant of the seat-freeing test: no cancel promotes
FreesSeatNever(priorStatus) == FALSE

\* mutant of the seat-freeing test: every cancel promotes
FreesSeatAlways(priorStatus) == priorStatus \in {"confirmed", "waitlist"}

\* the seat-freeing test of the cancel handler
FreesSeat(priorStatus) == priorStatus = "confirmed"

\* a lookup that forgets the owner of the booking
BookingOfAnyUser(bk, id, u) == id \in BookingIds(bk)

\* select ... where id = bookingId and userId = userId limit 1 found a row
BookingOfUser(bk, id, u) == id \in BookingIds(bk) /\ bk[id].userId = u

\* PATCH /bookings/:bookingId/cancel
CancelReservation(u, id) ==
    /\ UNCHANGED <<capacity, isActive, now>>
    /\ UNCHANGED paymentVars
    /\ UNCHANGED concurrentVars
    /\ IF ~BookingOfUser(bookings, id, u)
       THEN /\ bookingResponse' = BookingResponse("cancel", 0, 404, "none", 0)
            /\ UNCHANGED bookings
       ELSE IF bookings[id].status = "cancelled"
       THEN /\ bookingResponse' = BookingResponse("cancel", 0, 400, "none", 0)
            /\ UNCHANGED bookings
       ELSE LET prior == bookings[id].status
                cancelled == CancelRow(bookings, id)
                waitlist == WaitlistBooking(cancelled, bookings[id].classId)
            IN  IF FreesSeat(prior) /\ waitlist # {}
                THEN \E w \in waitlist :
                        /\ bookings' = PromoteRow(cancelled, w)
                        /\ bookingResponse' =
                               BookingResponse("cancel", id, 200, prior, w)
                ELSE /\ bookings' = cancelled
                     /\ bookingResponse' =
                            BookingResponse("cancel", id, 200, prior, 0)

\* ------------------------------------------------------------ payments
\* Strings that are converted (external_reference, ids) are sequences of
\* one-character strings; <<>> is the empty (or missing) string.
DigitChars == <<"0", "1", "2", "3", "4", "5", "6", "7", "8", "9">>

IsDigit(ch) == \E d \in 1..Len(DigitChars) : DigitChars[d] = ch

DigitValue(ch) == (CHOOSE d \in 1..Len(DigitChars) : DigitChars[d] = ch) - 1

\* Number.prototype.toString of a non-negative integer
RECURSIVE NumberToString(_)
NumberToString(n) ==
    IF n < Len(DigitChars)
    THEN <<DigitChars[n + 1]>>
    ELSE NumberToString(n \div Len(DigitChars)) \o <<DigitChars[(n % Len(DigitChars)) + 1]>>

RECURSIVE LeadingDigits(_, _)
LeadingDigits(str, acc) ==
    IF str = <<>> \/ ~IsDigit(str[1])
    THEN acc
    ELSE LeadingDigits(Tail(str), acc * Len(DigitChars) + DigitValue(str[1]))

\* parseInt: the number the leading digits spell, NaN when there is none
ParseInt(str) ==
    IF str = <<>> \/ ~IsDigit(str[1])
    THEN [nan |-> TRUE, value |-> 0]
    ELSE [nan |-> FALSE, value |-> LeadingDigits(str, 0)]

\* the status strings the gateway reports in the modelled runs
GatewayStatuses == {"approved", "rejected", "in_mediation"}

\* external references the gateway reports: none, one that is no number, and
\* the ids the preferences of this system carry
References ==
    {<<>>, <<"x">>} \cup {NumberToString(i) : i \in 1..MaxSubscriptions}

\* what mercadopago.payment.findById yields: an exception, nothing, or a payment
\* object (date_approved is <<>> when the gateway reports none)
GatewayAnswer(result, status, ref, date) ==
    [result |-> result, status |-> status, external_reference |-> ref,
     date_approved |-> date]

GatewayThrows == GatewayAnswer("throws", "", <<>>, <<>>)
GatewayNothing == GatewayAnswer("nothing", "", <<>>, <<>>)

GatewayPayments(t) ==
    {GatewayAnswer("payment", status, ref, date) :
        status \in GatewayStatuses, ref \in References, date \in {<<>>, <<t>>}}

GatewayAnswers(t) == {GatewayThrows, GatewayNothing} \cup GatewayPayments(t)

\* the webhook actions of the envelope
WebhookActions == {"payment.updated"}

\* envelope types; "" is a missing type
WebhookTypes == {"", "payment", "subscription", "preapproval", "merchant_order"}

\* mpPayment.status || 'pending'
StatusOrPending(mpStatus) == IF mpStatus = "" THEN "pending" ELSE mpStatus

\* a mapping without the 'rejected' case: rejected falls to the default
MapMercadoPagoStatusNoRejected(mpStatus) ==
    CASE mpStatus = "approved" -> "approved"
      [] mpStatus = "cancelled" -> "cancelled"
      [] mpStatus = "refunded" -> "refunded"
      [] OTHER -> "pending"

MapMercadoPagoStatus(mpStatus) ==
    CASE mpStatus = "approved" -> "approved"
      [] mpStatus = "cancelled" -> "cancelled"
      [] mpStatus = "rejected" -> "cancelled"
      [] mpStatus = "refunded" -> "refunded"
      [] OTHER -> "pending"

\* the three tables the reconciliation reads and writes
DB == [payments |-> payments,
       subscriptionPayments |-> subscriptionPayments,
       subscriptions |-> subscriptions]

\* metadata is a JSON object kept as a string: JSON.parse, spread, JSON.stringify
\* is a merge in which the webhook's keys replace equal keys of the stored bag
MergeMetadata(stored, fields) == fields @@ stored

\* the keys the webhook writes; status_detail, payment_method_id and
\* payment_type_id are copied from the gateway answer as mercadopago_status is
WebhookMetadata(mpPayment, action, t) ==
    [mercadopago_status |-> mpPayment.status, last_webhook_action |-> action,
     last_webhook_date |-> t]

\* a gate that lets every webhook write
StatusChangedAlways(stored, newStatus) == TRUE

\* mutant of the gate: a pending answer is always written
StatusChangedOrPending(stored, newStatus) ==
    stored # newStatus \/ newStatus = "pending"

\* the idempotency gate: write only when the status has changed
StatusChanged(stored, newStatus) == stored # newStatus

\* an edge test written with === in place of !==
ApprovalEdgeInverted(stored, newStatus) == newStatus = "approved" /\ stored = "approved"

\* mutant of the edge: any new status of a record that was not approved
ApprovalEdgeAnyStatus(stored, newStatus) == stored # "approved"

\* the approval edge: the new status is approved and the stored one was not
ApprovalEdge(stored, newStatus) == newStatus = "approved" /\ stored # "approved"

\* an update keyed by the owner column in place of the subscription column
HandleSubscriptionPaymentApprovedByOwner(subs, subscriptionPayment, t) ==
    [i \in 1..Len(subs) |->
        IF i = subscriptionPayment.ownerId
        THEN [subs[i] EXCEPT !.status = "active", !.updatedAt = t]
        ELSE subs[i]]

\* update subscriptions set status = 'active', updatedAt where id = subscriptionId
HandleSubscriptionPaymentApproved(subs, subscriptionPayment, t) ==
    [i \in 1..Len(subs) |->
        IF i = subscriptionPayment.subscriptionId
        THEN [subs[i] EXCEPT !.status = "active", !.updatedAt = t]
        ELSE subs[i]]

\* the row written by the status update of either table; paidAt stands for
\* payments.payment_date and subscription_payments.paid_at
UpdatedRecord(row, newStatus, gatewayId, mpPayment, action, t) ==
    [row EXCEPT !.status = newStatus,
                !.mercadopagoId = NumberToString(gatewayId),
                !.paidAt = mpPayment.date_approved,
                !.updatedAt = t,
                !.metadata = MergeMetadata(row.metadata, WebhookMetadata(mpPayment, action, t))]

\* result of a webhook processing: the tables, the line logged, the side
\* effect invoked and whether an exception left the function
Outcome(db, log, sideEffect, threw) ==
    [db |-> db, log |-> log, sideEffect |-> sideEffect, threw |-> threw]

ProcessSubscriptionPaymentWebhook(db, id, newStatus, gatewayId, mpPayment, action, t) ==
    LET subscriptionPayment == db.subscriptionPayments[id] IN
    IF StatusChanged(subscriptionPayment.status, newStatus)
    THEN LET written ==
                 [db EXCEPT !.subscriptionPayments[id] =
                     UpdatedRecord(subscriptionPayment, newStatus, gatewayId,
                                   mpPayment, action, t)]
         IN  IF ApprovalEdge(subscriptionPayment.status, newStatus)
             THEN Outcome([written EXCEPT !.subscriptions =
                               HandleSubscriptionPaymentApproved(
                                   written.subscriptions, subscriptionPayment, t)],
                          "subscription payment updated", "activate subscription", FALSE)
             ELSE Outcome(written, "subscription payment updated", "none", FALSE)
    ELSE Outcome(db, "subscription payment unchanged", "none", FALSE)

\* a query that lost its where clause: limit 1 yields the first row
SelectByIdNoWhere(table, ref) == IF Len(table) > 0 THEN {1} ELSE {}

\* select ... where id = parseInt(externalReference) limit 1: the ids found
\* (no row has id NaN)
SelectById(table, ref) ==
    IF ~ref.nan /\ ref.value \in 1..Len(table) THEN {ref.value} ELSE {}

\* mpPayment is the answer of the gateway to findById(gatewayId)
ProcessPaymentWebhook(db, gatewayId, action, mpPayment, t) ==
    IF mpPayment.result = "throws"
    THEN Outcome(db, "error processing payment webhook", "none", TRUE)
    ELSE IF mpPayment.result = "nothing" \/ mpPayment.external_reference = <<>>
    THEN Outcome(db, "not found or missing external_reference", "none", FALSE)
    ELSE LET newStatus == MapMercadoPagoStatus(StatusOrPending(mpPayment.status))
             ref == ParseInt(mpPayment.external_reference)
             foundSubscriptionPayment == SelectById(db.subscriptionPayments, ref)
             foundPayment == SelectById(db.payments, ref)
         IN  IF foundSubscriptionPayment # {}
             THEN ProcessSubscriptionPaymentWebhook(
                      db, CHOOSE id \in foundSubscriptionPayment : TRUE,
                      newStatus, gatewayId, mpPayment, action, t)
             ELSE IF foundPayment = {}
             THEN Outcome(db, "external_reference not found in database", "none", FALSE)
             ELSE LET id == CHOOSE row \in foundPayment : TRUE
                      currentPayment == db.payments[id]
                  IN
                  IF StatusChanged(currentPayment.status, newStatus)
                  THEN Outcome([db EXCEPT !.payments[id] =
                                    UpdatedRecord(currentPayment, newStatus, gatewayId,
                                                  mpPayment, action, t)],
                               "payment updated",
                               IF ApprovalEdge(currentPayment.status, newStatus)
                               THEN "payment approved" ELSE "none",
                               FALSE)
                  ELSE Outcome(db, "payment unchanged", "none", FALSE)

\* op is the route, code the HTTP status, log the line the request logged last,
\* sideEffect the approval handler it invoked
PaymentResponse(op, code, log, sideEffect) ==
    [op |-> op, code |-> code, log |-> log, sideEffect |-> sideEffect]

NoPaymentResponse == PaymentResponse("none", 0, "none", "none")

\* a validation that forgets data.id
InvalidWebhookStructureTypeOnly(type, gatewayId) == type = ""

\* !type || !data || !data.id: a missing data or data.id is gatewayId 0
InvalidWebhookStructure(type, gatewayId) == type = "" \/ gatewayId = 0

\* POST /payments/webhook as a function of the tables: the outcome and the status
WebhookResult(db, type, gatewayId, action, mpPayment, t) ==
    IF InvalidWebhookStructure(type, gatewayId)
    THEN [outcome |-> Outcome(db, "invalid webhook structure", "none", FALSE), code |-> 400]
    ELSE IF type = "payment"
    THEN LET outcome == ProcessPaymentWebhook(db, gatewayId, action, mpPayment, t) IN
         [outcome |-> outcome, code |-> IF outcome.threw THEN 500 ELSE 200]
    ELSE IF type \in {"subscription", "preapproval"}
    THEN [outcome |-> Outcome(db, "webhook received", "none", FALSE), code |-> 200]
    ELSE [outcome |-> Outcome(db, "unhandled webhook type", "none", FALSE), code |-> 200]

\* POST /payments/webhook
HandleWebhookNotification(type, gatewayId, action, mpPayment) ==
    \E result \in {WebhookResult(DB, type, gatewayId, action, mpPayment, now)} :
    /\ payments' = result.outcome.db.payments
    /\ subscriptionPayments' = result.outcome.db.subscriptionPayments
    /\ subscriptions' = result.outcome.db.subscriptions
    /\ paymentResponse' = PaymentResponse("webhook", result.code, result.outcome.log,
                                          result.outcome.sideEffect)
    /\ now' = now
    /\ UNCHANGED bookingVars
    /\ UNCHANGED concurrentVars


\* a payments or subscription_payments row as the insert leaves it: status
\* pending, no gateway id, no paid date.  Optional values are sequences of
\* length at most one, <<>> for null.
NewPaymentRecord(metadata, t) ==
    [status |-> "pending", mercadopagoId |-> <<>>, paidAt |-> <<>>,
     updatedAt |-> t, metadata |-> metadata]

\* POST /payments/create-preference; isGymUser is the userType test
CreatePreference(isGymUser) ==
    /\ IF ~isGymUser
       THEN /\ paymentResponse' = PaymentResponse("create-preference", 403, "none", "none")
            /\ UNCHANGED payments
       ELSE /\ Len(payments) + Len(subscriptions) < MaxRows
            /\ payments' = Append(payments, NewPaymentRecord([created_via |-> "api"], now))
            /\ paymentResponse' = PaymentResponse("create-preference", 201, "none", "none")
    /\ UNCHANGED <<subscriptions, subscriptionPayments, now>>
    /\ UNCHANGED bookingVars
    /\ UNCHANGED concurrentVars

\* the plans the seed script inserts as active, and the plan ids a request names
ActivePlans == {1}
PlanInputs == {1, 2}

\* start dates a request may carry, in months: <<>> is "not given" (today)
StartDateInputs == {<<>>, <<0 - 12>>}

BillingCycles == {"monthly", "annual"}

\* setFullYear(+1) or setMonth(+1), in months
ExpiresAt(startDate, billingCycle) ==
    IF billingCycle = "annual" THEN startDate + 12 ELSE startDate + 1

\* a query that takes every subscription of the owner that is not cancelled
ActiveSubscriptionNotCancelled(subs, owner) ==
    {i \in 1..Len(subs) : subs[i].ownerId = owner /\ subs[i].status # "cancelled"}

\* the ids of the rows select ... where ownerId and status = 'active' limit 1 may
\* return: the query has no ORDER BY
ActiveSubscription(subs, owner) ==
    {i \in 1..Len(subs) : subs[i].ownerId = owner /\ subs[i].status = "active"}

\* the subscriptions row /create inserts
NewSubscription(owner, startDate, billingCycle, t) ==
    [ownerId |-> owner, status |-> "pending_payment",
     expiresAt |-> ExpiresAt(startDate, billingCycle), updatedAt |-> t]

\* the subscription_payments row /create inserts for subscription id
NewSubscriptionPayment(id, owner, billingCycle, t) ==
    [subscriptionId |-> id, ownerId |-> owner] @@
    NewPaymentRecord([subscription_id |-> id, billing_cycle |-> billingCycle], t)

\* POST /subscriptions/create
CreateSubscription(owner, planId, billingCycle, start) ==
    /\ IF planId \notin ActivePlans
       THEN /\ paymentResponse' = PaymentResponse("create-subscription", 404, "none", "none")
            /\ UNCHANGED <<subscriptions, subscriptionPayments>>
       ELSE IF ActiveSubscription(subscriptions, owner) # {}
       THEN /\ paymentResponse' = PaymentResponse("create-subscription", 400, "none", "none")
            /\ UNCHANGED <<subscriptions, subscriptionPayments>>
       ELSE LET startDate == IF start = <<>> THEN now ELSE start[1]
                id == Len(subscriptions) + 1
            IN  /\ Len(subscriptions) < MaxSubscriptions
                /\ Len(payments) + Len(subscriptions) < MaxRows
                /\ subscriptions' = Append(subscriptions,
                       NewSubscription(owner, startDate, billingCycle, now))
                /\ subscriptionPayments' = Append(subscriptionPayments,
                       NewSubscriptionPayment(id, owner, billingCycle, now))
                /\ paymentResponse' =
                       PaymentResponse("create-subscription", 201, "none", "none")
    /\ UNCHANGED <<payments, now>>
    /\ UNCHANGED bookingVars
    /\ UNCHANGED concurrentVars

SetSubscriptionStatus(subs, id, status, t) ==
    [subs EXCEPT ![id].status = status, ![id].updatedAt = t]

\* POST /subscriptions/cancel
CancelSubscription(owner) ==
    /\ IF ActiveSubscription(subscriptions, owner) = {}
       THEN /\ paymentResponse' = PaymentResponse("cancel-subscription", 404, "none", "none")
            /\ UNCHANGED subscriptions
       ELSE \E id \in ActiveSubscription(subscriptions, owner) :
            /\ subscriptions' = SetSubscriptionStatus(subscriptions, id, "cancelled", now)
            /\ paymentResponse' = PaymentResponse("cancel-subscription", 200, "none", "none")
    /\ UNCHANGED <<payments, subscriptionPayments, now>>
    /\ UNCHANGED bookingVars
    /\ UNCHANGED concurrentVars

\* GET /subscriptions/current, with its expiry check
CurrentSubscription(owner) ==
    /\ IF ActiveSubscription(subscriptions, owner) = {}
       THEN /\ paymentResponse' = PaymentResponse("current-subscription", 404, "none", "none")
            /\ UNCHANGED subscriptions
       ELSE \E id \in ActiveSubscription(subscriptions, owner) :
            IF subscriptions[id].expiresAt < now
            THEN /\ subscriptions' = SetSubscriptionStatus(subscriptions, id, "expired", now)
                 /\ paymentResponse' =
                        PaymentResponse("current-subscription", 404, "expired", "none")
            ELSE /\ UNCHANGED subscriptions
                 /\ paymentResponse' =
                        PaymentResponse("current-subscription", 200, "none", "none")
    /\ UNCHANGED <<payments, subscriptionPayments, now>>
    /\ UNCHANGED bookingVars
    /\ UNCHANGED concurrentVars

\* a request that has not arrived
IdleCall ==
    [op |-> "none", pc |-> "idle", user |-> 0, class |-> 0, booking |-> 0,
     count |-> 0, status |-> "none", row |-> 0, code |-> 0]

\* a delivery that has not arrived
IdleDelivery ==
    [pc |-> "idle", gatewayId |-> 0, action |-> "", mpPayment |-> GatewayNothing,
     newStatus |-> "none", table |-> "none", id |-> 0, stored |-> <<>>,
     wrote |-> FALSE, sideEffect |-> "none", failed |-> "none", code |-> 0]

InitClasses ==
    /\ capacity \in [ClassIds -> 1..MaxCapacity]
    /\ isActive \in [ClassIds -> BOOLEAN]

InitTables ==
    /\ bookings = <<>>
    /\ now = 0
    /\ bookingResponse = NoBookingResponse
    /\ payments = <<>>
    /\ subscriptions = <<>>
    /\ subscriptionPayments = <<>>
    /\ paymentResponse = NoPaymentResponse
    /\ calls = [i \in CallIds |-> IdleCall]
    /\ deliveries = [i \in DeliveryIds |-> IdleDelivery]

Init == InitClasses /\ InitTables

\* the payment side does not read the classes: one class configuration
PaymentInit ==
    /\ capacity = [c \in ClassIds |-> MaxCapacity]
    /\ isActive = [c \in ClassIds |-> TRUE]
    /\ InitTables

BookingNext ==
    \/ \E u \in Users, c \in ClassInputs : CreateReservation(u, c)
    \/ \E u \in Users, id \in BookingInputs : CancelReservation(u, id)

PaymentNext ==
    \/ \E isGymUser \in BOOLEAN : CreatePreference(isGymUser)
    \/ \E owner \in Owners, planId \in PlanInputs, cycle \in BillingCycles,
          start \in StartDateInputs : CreateSubscription(owner, planId, cycle, start)
    \/ \E owner \in Owners : CancelSubscription(owner)
    \/ \E owner \in Owners : CurrentSubscription(owner)
    \/ \E gatewayId \in GatewayIds, action \in WebhookActions,
          mpPayment \in GatewayAnswers(now) :
          HandleWebhookNotification("payment", gatewayId, action, mpPayment)
    \/ \E type \in WebhookTypes, gatewayId \in GatewayInputs,
          action \in WebhookActions :
          /\ type # "payment" \/ gatewayId = 0
          /\ HandleWebhookNotification(type, gatewayId, action, GatewayNothing)

Next == BookingNext \/ PaymentNext

BookingSpec == Init /\ [][BookingNext]_vars

PaymentSpec == PaymentInit /\ [][PaymentNext]_vars

Spec == Init /\ [][Next]_vars

\* ------------------------------------- bookings requests that overlap
\* A handler runs from one await to the next without interruption: each
\* database operation is one step, and the steps of the requests in flight
\* interleave.  What a request has read is kept in its record.

\* a sequence of users, each booking class c in turn
UserSeqs == UNION {[1..n -> Users] : n \in 0..MaxBookings}

\* the bookings table after the users of us have requested class c one at a
\* time (the requests the duplicate check rejects insert nothing)
RECURSIVE BookedInTurn(_, _, _)
BookedInTurn(us, c, cap) ==
    IF us = <<>>
    THEN <<>>
    ELSE LET bk == BookedInTurn(SubSeq(us, 1, Len(us) - 1), c, cap)
             u == us[Len(us)]
         IN  IF ExistingBooking(bk, u, c) # {}
             THEN bk
             ELSE Append(bk, NewBooking(u, c,
                                 AdmissionStatus(CountConfirmed(bk, c), cap), Len(bk)))

\* the requests overlap on a table that one-at-a-time bookings of the first
\* class have filled
ConcurrentBookingInit ==
    /\ \E k \in 1..MaxCapacity : capacity = [c \in ClassIds |-> k]
    /\ isActive = [c \in ClassIds |-> TRUE]
    /\ bookings \in {BookedInTurn(us, 1, capacity[1]) : us \in UserSeqs}
    /\ now = Len(bookings)
    /\ bookingResponse = NoBookingResponse
    /\ payments = <<>>
    /\ subscriptions = <<>>
    /\ subscriptionPayments = <<>>
    /\ paymentResponse = NoPaymentResponse
    /\ calls = [i \in CallIds |-> IdleCall]
    /\ deliveries = [i \in DeliveryIds |-> IdleDelivery]

\* the frame of a step of a bookings request
CallFrame ==
    /\ UNCHANGED <<capacity, isActive, bookingResponse>>
    /\ UNCHANGED paymentVars
    /\ UNCHANGED deliveries

\* requests arrive in the order of their records
MayBegin(i) ==
    /\ calls[i].pc = "idle"
    /\ \A j \in CallIds : j < i => calls[j].pc # "idle"

\* POST /bookings arrives: select the class
BeginCreate(i, u, c) ==
    /\ MayBegin(i)
    /\ calls' = [calls EXCEPT ![i] =
           IF ~ClassFound(c)
           THEN [IdleCall EXCEPT !.op = "create", !.user = u, !.class = c,
                                 !.pc = "done", !.code = 404]
           ELSE [IdleCall EXCEPT !.op = "create", !.user = u, !.class = c,
                                 !.pc = "existing"]]
    /\ UNCHANGED <<bookings, now>>
    /\ CallFrame

\* select the caller's confirmed booking of the class
CheckExisting(i) ==
    /\ calls[i].pc = "existing"
    /\ calls' = [calls EXCEPT ![i] =
           IF ExistingBooking(bookings, calls[i].user, calls[i].class) # {}
           THEN [@ EXCEPT !.pc = "done", !.code = 400]
           ELSE [@ EXCEPT !.pc = "count"]]
    /\ UNCHANGED <<bookings, now>>
    /\ CallFrame

\* select count(*) of the confirmed bookings of the class, and decide the status
CountSeats(i) ==
    /\ calls[i].pc = "count"
    /\ LET currentBookings == CountConfirmed(bookings, calls[i].class) IN
       calls' = [calls EXCEPT ![i] =
           [@ EXCEPT !.pc = "insert", !.count = currentBookings,
                     !.status = AdmissionStatus(currentBookings,
                                                capacity[calls[i].class])]]
    /\ UNCHANGED <<bookings, now>>
    /\ CallFrame

\* insert the booking with the status decided
InsertBooking(i) ==
    /\ calls[i].pc = "insert"
    /\ Len(bookings) < MaxBookings
    /\ bookings' = Append(bookings,
           NewBooking(calls[i].user, calls[i].class, calls[i].status, now))
    /\ now' = now + 1
    /\ calls' = [calls EXCEPT ![i] =
           [@ EXCEPT !.pc = "done", !.row = Len(bookings) + 1, !.code = 201]]
    /\ CallFrame

\* PATCH /bookings/:bookingId/cancel arrives: select the booking of the caller
BeginCancel(i, u, id) ==
    /\ MayBegin(i)
    /\ calls' = [calls EXCEPT ![i] =
           IF ~BookingOfUser(bookings, id, u)
           THEN [IdleCall EXCEPT !.op = "cancel", !.user = u, !.booking = id,
                                 !.pc = "done", !.code = 404]
           ELSE IF bookings[id].status = "cancelled"
           THEN [IdleCall EXCEPT !.op = "cancel", !.user = u, !.booking = id,
                                 !.pc = "done", !.code = 400]
           ELSE [IdleCall EXCEPT !.op = "cancel", !.user = u, !.booking = id,
                                 !.class = bookings[id].classId,
                                 !.status = bookings[id].status,
                                 !.pc = "cancel"]]
    /\ UNCHANGED <<bookings, now>>
    /\ CallFrame

\* update the booking to cancelled
WriteCancel(i) ==
    /\ calls[i].pc = "cancel"
    /\ bookings' = CancelRow(bookings, calls[i].booking)
    /\ calls' = [calls EXCEPT ![i] =
           IF FreesSeat(calls[i].status)
           THEN [@ EXCEPT !.pc = "waitlist"]
           ELSE [@ EXCEPT !.pc = "done", !.code = 200]]
    /\ UNCHANGED now
    /\ CallFrame

\* select a waitlisted booking of the class, limit 1
SelectWaitlist(i) ==
    /\ calls[i].pc = "waitlist"
    /\ LET waitlist == WaitlistBooking(bookings, calls[i].class) IN
       IF waitlist = {}
       THEN calls' = [calls EXCEPT ![i] = [@ EXCEPT !.pc = "done", !.code = 200]]
       ELSE \E w \in waitlist :
                calls' = [calls EXCEPT ![i] = [@ EXCEPT !.pc = "promote", !.row = w]]
    /\ UNCHANGED <<bookings, now>>
    /\ CallFrame

\* update the selected booking to confirmed
PromoteWaitlist(i) ==
    /\ calls[i].pc = "promote"
    /\ bookings' = PromoteRow(bookings, calls[i].row)
    /\ calls' = [calls EXCEPT ![i] = [@ EXCEPT !.pc = "done", !.code = 200]]
    /\ UNCHANGED now
    /\ CallFrame

ConcurrentBookingNext ==
    \/ \E i \in CallIds, u \in Users, c \in ClassInputs : BeginCreate(i, u, c)
    \/ \E i \in CallIds : CheckExisting(i)
    \/ \E i \in CallIds : CountSeats(i)
    \/ \E i \in CallIds : InsertBooking(i)
    \/ \E i \in CallIds, u \in Users, id \in BookingInputs : BeginCancel(i, u, id)
    \/ \E i \in CallIds : WriteCancel(i)
    \/ \E i \in CallIds : SelectWaitlist(i)
    \/ \E i \in CallIds : PromoteWaitlist(i)

ConcurrentBookingSpec == ConcurrentBookingInit /\ [][ConcurrentBookingNext]_vars

\* ------------------------------------ webhook deliveries that overlap
\* Each awaited call of processPaymentWebhook (the fetch, a select, an update)
\* is one step.  A delivery keeps the gateway answer and the row it has read.

\* the deliveries find the tables as /subscriptions/create and
\* /payments/create-preference leave them: every row pending
ConcurrentPaymentInit ==
    /\ capacity = [c \in ClassIds |-> MaxCapacity]
    /\ isActive = [c \in ClassIds |-> TRUE]
    /\ bookings = <<>>
    /\ now = 0
    /\ bookingResponse = NoBookingResponse
    /\ paymentResponse = NoPaymentResponse
    /\ \E n \in 0..MaxSubscriptions, m \in 0..MaxRows :
        /\ n + m <= MaxRows
        /\ \E cycles \in [1..n -> BillingCycles], owners \in [1..n -> Owners] :
            /\ subscriptions =
                   [i \in 1..n |-> NewSubscription(owners[i], now, cycles[i], now)]
            /\ subscriptionPayments =
                   [i \in 1..n |-> NewSubscriptionPayment(i, owners[i], cycles[i], now)]
        /\ payments = [i \in 1..m |-> NewPaymentRecord([created_via |-> "api"], now)]
    /\ calls = [i \in CallIds |-> IdleCall]
    /\ deliveries = [i \in DeliveryIds |-> IdleDelivery]

\* the frame of a step of a delivery
DeliveryFrame ==
    /\ UNCHANGED <<now, paymentResponse, calls>>
    /\ UNCHANGED bookingVars

Finished(delivery, code) == [delivery EXCEPT !.pc = "done", !.code = code]

\* deliveries arrive in the order of their records
MayArrive(d) ==
    /\ deliveries[d].pc = "idle"
    /\ \A e \in DeliveryIds : e < d => deliveries[e].pc # "idle"

\* a valid payment webhook arrives and findById answers
FetchPayment(d, gatewayId, action, mpPayment) ==
    /\ MayArrive(d)
    /\ LET arrived == [IdleDelivery EXCEPT !.gatewayId = gatewayId,
                                           !.action = action,
                                           !.mpPayment = mpPayment]
       IN  deliveries' = [deliveries EXCEPT ![d] =
               IF mpPayment.result = "throws"
               THEN Finished(arrived, 500)
               ELSE IF mpPayment.result = "nothing"
                       \/ mpPayment.external_reference = <<>>
               THEN Finished(arrived, 200)
               ELSE [arrived EXCEPT
                        !.pc = "selectSubscriptionPayment",
                        !.newStatus =
                            MapMercadoPagoStatus(StatusOrPending(mpPayment.status))]]
    /\ UNCHANGED <<payments, subscriptionPayments, subscriptions>>
    /\ DeliveryFrame

\* what a delivery does with the row a select has found: the status test
Selected(delivery, table, id, row) ==
    LET read == [delivery EXCEPT !.table = table, !.id = id, !.stored = <<row>>] IN
    IF StatusChanged(row.status, delivery.newStatus)
    THEN [read EXCEPT !.pc = "update"]
    ELSE Finished(read, 200)

\* select the subscription payment the reference names
SelectSubscriptionPayment(d) ==
    /\ deliveries[d].pc = "selectSubscriptionPayment"
    /\ LET found == SelectById(subscriptionPayments,
                               ParseInt(deliveries[d].mpPayment.external_reference))
       IN  IF found = {}
           THEN deliveries' = [deliveries EXCEPT ![d].pc = "selectPayment"]
           ELSE \E id \in found :
                    deliveries' = [deliveries EXCEPT ![d] =
                        Selected(@, "subscriptionPayments", id, subscriptionPayments[id])]
    /\ UNCHANGED <<payments, subscriptionPayments, subscriptions>>
    /\ DeliveryFrame

\* select the payment the reference names
SelectPayment(d) ==
    /\ deliveries[d].pc = "selectPayment"
    /\ LET found == SelectById(payments,
                               ParseInt(deliveries[d].mpPayment.external_reference))
       IN  IF found = {}
           THEN deliveries' = [deliveries EXCEPT ![d] = Finished(@, 200)]
           ELSE \E id \in found :
                    deliveries' = [deliveries EXCEPT ![d] =
                        Selected(@, "payments", id, payments[id])]
    /\ UNCHANGED <<payments, subscriptionPayments, subscriptions>>
    /\ DeliveryFrame

\* the row the update leaves: the columns it sets, the metadata merged into the
\* metadata that was read, the other columns as the table holds them
WrittenRecord(current, delivery) ==
    UpdatedRecord([current EXCEPT !.metadata = delivery.stored[1].metadata],
                  delivery.newStatus, delivery.gatewayId, delivery.mpPayment,
                  delivery.action, now)

\* update the row that was read; the approval handler follows on the edge
UpdateRecord(d) ==
    /\ deliveries[d].pc = "update"
    /\ LET delivery == deliveries[d]
           edge == ApprovalEdge(delivery.stored[1].status, delivery.newStatus)
       IN  IF delivery.table = "subscriptionPayments"
           THEN /\ subscriptionPayments' =
                       [subscriptionPayments EXCEPT ![delivery.id] =
                           WrittenRecord(@, delivery)]
                /\ UNCHANGED payments
                /\ deliveries' = [deliveries EXCEPT ![d] =
                       IF edge
                       THEN [@ EXCEPT !.wrote = TRUE, !.pc = "activate"]
                       ELSE Finished([@ EXCEPT !.wrote = TRUE], 200)]
           ELSE /\ payments' =
                       [payments EXCEPT ![delivery.id] = WrittenRecord(@, delivery)]
                /\ UNCHANGED subscriptionPayments
                /\ deliveries' = [deliveries EXCEPT ![d] =
                       Finished([@ EXCEPT !.wrote = TRUE,
                                          !.sideEffect =
                                              IF edge THEN "payment approved"
                                              ELSE "none"], 200)]
    /\ UNCHANGED subscriptions
    /\ DeliveryFrame

\* handleSubscriptionPaymentApproved: update the subscription of the row read
ActivateSubscription(d) ==
    /\ deliveries[d].pc = "activate"
    /\ subscriptions' = HandleSubscriptionPaymentApproved(
                            subscriptions, deliveries[d].stored[1], now)
    /\ deliveries' = [deliveries EXCEPT ![d] =
           Finished([@ EXCEPT !.sideEffect = "activate subscription"], 200)]
    /\ UNCHANGED <<payments, subscriptionPayments>>
    /\ DeliveryFrame

ConcurrentPaymentNext ==
    \/ \E d \in DeliveryIds, gatewayId \in GatewayIds, action \in WebhookActions,
          mpPayment \in GatewayAnswers(now) :
          FetchPayment(d, gatewayId, action, mpPayment)
    \/ \E d \in DeliveryIds : SelectSubscriptionPayment(d)
    \/ \E d \in DeliveryIds : SelectPayment(d)
    \/ \E d \in DeliveryIds : UpdateRecord(d)
    \/ \E d \in DeliveryIds : ActivateSubscription(d)

ConcurrentPaymentSpec == ConcurrentPaymentInit /\ [][ConcurrentPaymentNext]_vars

\* ------------------------------------------ database writes that fail
\* An awaited update may reject instead of writing.

\* the update of the payment row rejects: the catch of processPaymentWebhook
\* or of processSubscriptionPaymentWebhook logs and rethrows, and the catch of
\* the route answers 500
UpdateRecordFails(d) ==
    /\ deliveries[d].pc = "update"
    /\ deliveries' = [deliveries EXCEPT ![d] =
           Finished([@ EXCEPT !.failed = "update"], 500)]
    /\ UNCHANGED <<payments, subscriptionPayments, subscriptions>>
    /\ DeliveryFrame

\* the update of the subscription rejects: the catch of
\* handleSubscriptionPaymentApproved logs the error and returns, and the route
\* answers 200
ActivateSubscriptionFails(d) ==
    /\ deliveries[d].pc = "activate"
    /\ deliveries' = [deliveries EXCEPT ![d] =
           Finished([@ EXCEPT !.failed = "activate"], 200)]
    /\ UNCHANGED <<payments, subscriptionPayments, subscriptions>>
    /\ DeliveryFrame

FailingWriteNext ==
    \/ ConcurrentPaymentNext
    \/ \E d \in DeliveryIds : UpdateRecordFails(d)
    \/ \E d \in DeliveryIds : ActivateSubscriptionFails(d)

FailingWriteSpec == ConcurrentPaymentInit /\ [][FailingWriteNext]_vars

\* ------------------------------------------------- claims on bookings
ClassBookings(bk, c) == {i \in BookingIds(bk) : bk[i].classId = c}

\* the position of booking i among the bookings of its class, in request order
RankInClass(bk, i) ==
    Cardinality({j \in ClassBookings(bk, bk[i].classId) : j <= i})

NonCancelled(bk) == {i \in BookingIds(bk) : bk[i].status # "cancelled"}

\* C1: under one-at-a-time CreateReservation and CancelReservation requests and
\* unchanged capacities, the number of confirmed bookings of every class is at
\* most the capacity of the class.
C1_CapacityRespected ==
    \A c \in ClassIds : CountConfirmed(bookings, c) <= capacity[c]

\* a full class with a waiting booking, reached by a cancel that promoted
C1_Witness ==
    \E c \in ClassIds :
        /\ CountConfirmed(bookings, c) = capacity[c]
        /\ WaitlistBooking(bookings, c) # {}
        /\ bookingResponse.op = "cancel"
        /\ bookingResponse.promoted # 0
        /\ bookings[bookingResponse.promoted].classId = c

\* C2: no user holds two non-cancelled (confirmed or waitlist) bookings of the
\* same class: a create by a user who holds one is rejected and inserts nothing.
C2_OneNonCancelledPerUserClass ==
    \A i, j \in NonCancelled(bookings) :
        (bookings[i].userId = bookings[j].userId
            /\ bookings[i].classId = bookings[j].classId) => i = j

\* C3: a cancel of a confirmed booking promotes the waitlisted booking of the
\* class with the earliest bookedAt and leaves the other waitlisted bookings
\* waiting; with no waitlisted booking nothing is promoted and the confirmed
\* count of the class goes down by exactly one.
C3_EarliestBookedPromoted ==
    [][\A u \in Users, id \in BookingInputs :
        (/\ id \in BookingIds(bookings)
         /\ bookings[id].userId = u
         /\ bookings[id].status = "confirmed"
         /\ CancelReservation(u, id))
        => LET c == bookings[id].classId
               waiting == WaitlistBooking(bookings, c)
           IN  IF waiting # {}
               THEN \E p \in waiting :
                       /\ \A w \in waiting : bookings[p].bookedAt <= bookings[w].bookedAt
                       /\ bookings'[p].status = "confirmed"
                       /\ \A w \in waiting \ {p} : bookings'[w].status = "waitlist"
               ELSE /\ CountConfirmed(bookings', c) = CountConfirmed(bookings, c) - 1
                    /\ \A j \in BookingIds(bookings) \ {id} :
                           bookings'[j].status = bookings[j].status
      ]_vars

\* C4: in a class with capacity C whose N > C bookings were made by N distinct
\* users and none was cancelled, the first C bookings in request order are
\* confirmed and the remaining N - C are on the waitlist.
C4_FirstCConfirmedRestWaitlisted ==
    \A c \in ClassIds :
        LET rows == ClassBookings(bookings, c) IN
        (/\ Cardinality(rows) > capacity[c]
         /\ \A i \in rows : bookings[i].status # "cancelled"
         /\ \A i, j \in rows : bookings[i].userId = bookings[j].userId => i = j)
        => \A i \in rows :
              bookings[i].status =
                  IF RankInClass(bookings, i) <= capacity[c] THEN "confirmed" ELSE "waitlist"

\* a class of capacity 2 booked by three distinct users, nothing cancelled
C4_Witness ==
    \E c \in ClassIds :
        LET rows == ClassBookings(bookings, c) IN
        /\ capacity[c] = MaxCapacity
        /\ Cardinality(rows) > capacity[c]
        /\ \A i \in rows : bookings[i].status # "cancelled"
        /\ \A i, j \in rows : bookings[i].userId = bookings[j].userId => i = j

\* C5: a cancel of a waitlisted booking changes that booking only (to
\* cancelled): every other booking, of any class, is left as it was and nothing
\* is promoted.
C5_WaitlistCancelFrame ==
    [][\A u \in Users, id \in BookingInputs :
        (/\ id \in BookingIds(bookings)
         /\ bookings[id].userId = u
         /\ bookings[id].status = "waitlist"
         /\ CancelReservation(u, id))
        => /\ Len(bookings') = Len(bookings)
           /\ bookings'[id].status = "cancelled"
           /\ \A j \in BookingIds(bookings) \ {id} : bookings'[j] = bookings[j]
           /\ bookingResponse'.promoted = 0
      ]_vars

\* a waitlisted booking was cancelled while another booking of its class waits
\* and another class has bookings too
C5_Witness ==
    /\ bookingResponse.op = "cancel"
    /\ bookingResponse.code = 200
    /\ bookingResponse.prior = "waitlist"
    /\ bookings[bookingResponse.id].status = "cancelled"
    /\ WaitlistBooking(bookings, bookings[bookingResponse.id].classId) # {}
    /\ \E j \in BookingIds(bookings) :
           bookings[j].classId # bookings[bookingResponse.id].classId

\* ------------------------------------------------- claims on payments
SubscriptionIds == 1..Len(subscriptions)
SubscriptionPaymentIds == 1..Len(subscriptionPayments)
PaymentIds == 1..Len(payments)

\* C6: when the same payment webhook is delivered twice in succession and the
\* gateway answers the same both times, the second delivery (at the same or a
\* later time) leaves every stored field of the payment records and of the
\* subscriptions as the first delivery left them and invokes no approval side
\* effect.
C6_SecondDeliveryChangesNothing ==
    \A gatewayId \in GatewayIds, action \in WebhookActions,
       mpPayment \in GatewayAnswers(now), later \in {now, now + 1} :
        LET first == WebhookResult(DB, "payment", gatewayId, action, mpPayment, now)
            second == WebhookResult(first.outcome.db, "payment", gatewayId, action,
                                    mpPayment, later)
        IN  /\ second.outcome.db = first.outcome.db
            /\ second.outcome.sideEffect = "none"

\* a webhook found the status it reports already stored on an approved
\* subscription payment whose subscription is active: a repeated delivery
C6_Witness ==
    /\ paymentResponse.op = "webhook"
    /\ paymentResponse.log = "subscription payment unchanged"
    /\ \E p \in SubscriptionPaymentIds :
           /\ subscriptionPayments[p].status = "approved"
           /\ subscriptionPayments[p].metadata.mercadopago_status = "approved"
           /\ subscriptions[subscriptionPayments[p].subscriptionId].status = "active"

\* C7: a payment webhook for which the gateway reports approved and an
\* external_reference that identifies a subscription payment not yet approved
\* leaves that subscription payment approved and its subscription active.
C7_ApprovalActivatesSubscription ==
    \A gatewayId \in GatewayIds, action \in WebhookActions,
       mpPayment \in GatewayPayments(now) :
        LET ref == ParseInt(mpPayment.external_reference)
            after == WebhookResult(DB, "payment", gatewayId, action, mpPayment,
                                   now).outcome.db
        IN  (/\ mpPayment.status = "approved"
             /\ ~ref.nan
             /\ ref.value \in SubscriptionPaymentIds
             /\ subscriptionPayments[ref.value].status # "approved")
            => /\ after.subscriptionPayments[ref.value].status = "approved"
               /\ after.subscriptions[
                      subscriptionPayments[ref.value].subscriptionId].status = "active"

\* the webhook of the second subscription's payment has activated it
C7_Witness ==
    /\ paymentResponse.op = "webhook"
    /\ paymentResponse.sideEffect = "activate subscription"
    /\ Len(subscriptionPayments) = MaxSubscriptions
    /\ subscriptionPayments[MaxSubscriptions].status = "approved"
    /\ subscriptions[subscriptionPayments[MaxSubscriptions].subscriptionId].status
           = "active"

\* C8: no owner has more than one subscription with status active.
C8_OneActiveSubscriptionPerOwner ==
    \A owner \in Owners : Cardinality(ActiveSubscription(subscriptions, owner)) <= 1

\* C9: a payment or subscription payment whose stored status is approved is
\* never set to pending by a later step.
C9_ApprovedNeverBackToPending ==
    [][/\ \A i \in PaymentIds :
              payments[i].status = "approved" => payments'[i].status # "pending"
       /\ \A p \in SubscriptionPaymentIds :
              subscriptionPayments[p].status = "approved"
                  => subscriptionPayments'[p].status # "pending"
      ]_vars

\* C10: a subscription in pending_payment changes status only to active and
\* only in a webhook step in which a subscription payment that references it
\* goes to approved; the create, cancel and current-subscription requests leave
\* every pending_payment subscription as it is.
C10_PendingLeavesOnlyByApproval ==
    [][\A i \in SubscriptionIds :
        subscriptions[i].status = "pending_payment"
        => /\ subscriptions'[i].status # "pending_payment"
              => /\ subscriptions'[i].status = "active"
                 /\ paymentResponse'.op = "webhook"
                 /\ \E p \in SubscriptionPaymentIds :
                        /\ subscriptionPayments[p].subscriptionId = i
                        /\ subscriptionPayments[p].status # "approved"
                        /\ subscriptionPayments'[p].status = "approved"
           /\ paymentResponse'.op \in {"create-subscription", "cancel-subscription",
                                       "current-subscription"}
              => subscriptions'[i] = subscriptions[i]
      ]_vars

\* one subscription was activated by the webhook of its payment while another
\* subscription is still in pending_payment
C10_Witness ==
    /\ paymentResponse.op = "webhook"
    /\ paymentResponse.sideEffect = "activate subscription"
    /\ \E i, j \in SubscriptionIds :
           /\ subscriptions[i].status = "active"
           /\ subscriptions[j].status = "pending_payment"

\* the records of both payment tables
StoredRecords ==
    {payments[i] : i \in PaymentIds}
        \cup {subscriptionPayments[p] : p \in SubscriptionPaymentIds}

\* status strings of the gateway: the four the mapping names, others the
\* gateway documents, one that is no status of the gateway, and the empty string
StatusStrings ==
    {"approved", "cancelled", "rejected", "refunded", "pending", "in_process",
     "in_mediation", "authorized", "charged_back", "unknown", ""}

\* the local status the specification gives for a gateway status
ExpectedStatus(mpStatus) ==
    IF mpStatus = "approved" THEN "approved"
    ELSE IF mpStatus \in {"cancelled", "rejected"} THEN "cancelled"
    ELSE IF mpStatus = "refunded" THEN "refunded"
    ELSE "pending"

\* C11: the status mapping is total: approved maps to approved, cancelled and
\* rejected to cancelled, refunded to refunded and every other string to
\* pending; every record a webhook has written holds the status the mapping
\* gives for the gateway status written with it.
C11_MappingTotal ==
    /\ \A mpStatus \in StatusStrings \cup GatewayStatuses :
           MapMercadoPagoStatus(mpStatus) = ExpectedStatus(mpStatus)
    /\ \A row \in StoredRecords :
           "mercadopago_status" \in DOMAIN row.metadata
               => row.status = ExpectedStatus(row.metadata.mercadopago_status)

\* webhooks have stored a rejected and an unrecognized gateway status
C11_Witness ==
    \E row, other \in StoredRecords :
        /\ "mercadopago_status" \in DOMAIN row.metadata
        /\ row.metadata.mercadopago_status = "rejected"
        /\ row.status = "cancelled"
        /\ "mercadopago_status" \in DOMAIN other.metadata
        /\ other.metadata.mercadopago_status = "in_mediation"
        /\ other.status = "pending"

\* C12: a webhook whose type or data.id is missing is answered 400 and leaves
\* the three tables unchanged, whatever the gateway would have answered (an
\* exception of the gateway included): the gateway is not asked.
C12_InvalidEnvelopeRejected ==
    \A type \in WebhookTypes, gatewayId \in GatewayInputs,
       action \in WebhookActions, mpPayment \in GatewayAnswers(now) :
        (type = "" \/ gatewayId = 0)
        => LET result == WebhookResult(DB, type, gatewayId, action, mpPayment, now)
           IN  /\ result.code = 400
               /\ result.outcome.db = DB
               /\ ~result.outcome.threw
               /\ result.outcome.sideEffect = "none"

\* a webhook was answered 400 while a pending subscription payment is stored
C12_Witness ==
    /\ paymentResponse.op = "webhook"
    /\ paymentResponse.code = 400
    /\ \E p \in SubscriptionPaymentIds : subscriptionPayments[p].status = "pending"

\* C13: a payment webhook whose gateway fetch fails is answered 200 and
\* changes no record.
C13_FetchFailureAcknowledged ==
    [][paymentResponse'.log = "error processing payment webhook"
       => /\ paymentResponse'.code = 200
          /\ UNCHANGED <<payments, subscriptionPayments, subscriptions>>
      ]_vars

\* the ids a reference names in a table: the rows whose id the reference spells
Matches(table, reference) ==
    {i \in 1..Len(table) : NumberToString(i) = reference}

\* C14: a valid payment webhook whose gateway payment has no
\* external_reference, or one that names neither a subscription payment nor a
\* payment, is answered 200 and leaves the three tables unchanged.
C14_UnmatchedReferenceIsNoOp ==
    \A gatewayId \in GatewayIds, action \in WebhookActions,
       mpPayment \in GatewayPayments(now) :
        (\/ mpPayment.external_reference = <<>>
         \/ /\ Matches(subscriptionPayments, mpPayment.external_reference) = {}
            /\ Matches(payments, mpPayment.external_reference) = {})
        => LET result == WebhookResult(DB, "payment", gatewayId, action, mpPayment, now)
           IN  /\ result.code = 200
               /\ result.outcome.db = DB
               /\ result.outcome.sideEffect = "none"

\* a webhook named a reference no table holds while a pending subscription
\* payment is stored, and was answered 200
C14_Witness ==
    /\ paymentResponse.op = "webhook"
    /\ paymentResponse.code = 200
    /\ paymentResponse.log = "external_reference not found in database"
    /\ \E p \in SubscriptionPaymentIds : subscriptionPayments[p].status = "pending"

\* C15: a cancel of a booking that does not exist or is another user's is
\* answered 404, a cancel of a cancelled booking 400; in both cases no booking
\* changes and nothing is promoted.
C15_CancelErrorsChangeNothing ==
    [][bookingResponse'.op = "cancel" => \A u \in Users, id \in BookingInputs :
        /\ (id \notin BookingIds(bookings) \/ bookings[id].userId # u)
           => \/ /\ bookingResponse'.code = 404
                 /\ bookingResponse'.promoted = 0
                 /\ bookings' = bookings
              \/ ~CancelReservation(u, id)
        /\ (/\ id \in BookingIds(bookings)
            /\ bookings[id].userId = u
            /\ bookings[id].status = "cancelled")
           => \/ /\ bookingResponse'.code = 400
                 /\ bookingResponse'.promoted = 0
                 /\ bookings' = bookings
              \/ ~CancelReservation(u, id)
      ]_vars

\* a cancel was answered 400 while a booking of the class waits: the booking
\* cancelled before was a waiting one, or its seat went to another waiting one
C15_Witness ==
    /\ bookingResponse.op = "cancel"
    /\ bookingResponse.code = 400
    /\ \E i \in BookingIds(bookings) :
           /\ bookings[i].status = "cancelled"
           /\ WaitlistBooking(bookings, bookings[i].classId) # {}

\* --------------------------------- claims on overlapping bookings requests
\* the requests that have inserted a booking
Inserted == {i \in CallIds : calls[i].op = "create" /\ calls[i].code = 201}

\* the number of bookings the table held when the first request arrived
RowsAtArrival == Len(bookings) - Cardinality(Inserted)

\* C16: two overlapping creates by different users of a class with exactly
\* one free seat can both read a confirmed count below the capacity; when they
\* do (and no third request runs), both insert a confirmed booking and the
\* confirmed count of the class exceeds its capacity.
C16_BothCreatesConfirmed ==
    \A a, b \in CallIds :
        (/\ a # b
         /\ \A k \in CallIds \ {a, b} : calls[k].pc = "idle"
         /\ calls[a].op = "create" /\ calls[b].op = "create"
         /\ calls[a].pc = "done" /\ calls[b].pc = "done"
         /\ calls[a].code = 201 /\ calls[b].code = 201
         /\ calls[a].class = calls[b].class
         /\ calls[a].user # calls[b].user
         /\ calls[a].count = capacity[calls[a].class] - 1
         /\ calls[b].count = capacity[calls[b].class] - 1)
        => /\ bookings[calls[a].row].status = "confirmed"
           /\ bookings[calls[b].row].status = "confirmed"
           /\ CountConfirmed(bookings, calls[a].class)
                  = capacity[calls[a].class] + 1

\* both creates have counted one free seat of a class of capacity 2 and have
\* inserted: three confirmed bookings
C16_Witness ==
    /\ calls[1].op = "create" /\ calls[2].op = "create"
    /\ calls[1].pc = "done" /\ calls[2].pc = "done"
    /\ calls[1].code = 201 /\ calls[2].code = 201
    /\ calls[1].class = calls[2].class
    /\ calls[1].user # calls[2].user
    /\ capacity[calls[1].class] = MaxCapacity
    /\ calls[1].count = MaxCapacity - 1
    /\ calls[2].count = MaxCapacity - 1
    /\ CountConfirmed(bookings, calls[1].class) > capacity[calls[1].class]

\* C18: when a cancel of a confirmed booking and a create overlap on a class
\* that was full with a non-empty waitlist when they arrived, the confirmed
\* count of the class never exceeds its capacity.  (The bookings the requests
\* find are those of the first class, the first capacity[1] of them confirmed
\* and the others waiting.)
C18_CancelCreateOverlapKeepsCapacity ==
    \A a, b \in CallIds :
        (/\ calls[a].op = "cancel"
         /\ calls[a].status = "confirmed"
         /\ calls[b].op = "create"
         /\ calls[b].class = calls[a].class
         /\ RowsAtArrival > capacity[calls[a].class])
        => CountConfirmed(bookings, calls[a].class) <= capacity[calls[a].class]

\* C19: under one-at-a-time requests no user holds two confirmed bookings of
\* the same class.
C19_OneConfirmedPerUserClass ==
    \A i, j \in BookingIds(bookings) :
        (/\ bookings[i].status = "confirmed"
         /\ bookings[j].status = "confirmed"
         /\ bookings[i].userId = bookings[j].userId
         /\ bookings[i].classId = bookings[j].classId) => i = j

\* C20: a payment webhook whose external_reference is the one create-preference
\* issued for a payment (the payment's id) changes no subscription payment and
\* no subscription, also when a subscription payment has the same id.
C20_OneOffWebhookLeavesSubscriptions ==
    \A gatewayId \in GatewayIds, action \in WebhookActions,
       mpPayment \in GatewayPayments(now) :
        Matches(payments, mpPayment.external_reference) # {}
        => LET after == WebhookResult(DB, "payment", gatewayId, action, mpPayment,
                                      now).outcome
           IN  /\ after.db.subscriptionPayments = subscriptionPayments
               /\ after.db.subscriptions = subscriptions
               /\ after.sideEffect # "activate subscription"

\* -------------------------------- claims on overlapping webhook deliveries
\* delivery d has read subscription payment p as pending for an approved
\* gateway payment, and has finished
ApprovedForPending(d, p) ==
    /\ deliveries[d].pc = "done"
    /\ deliveries[d].mpPayment.status = "approved"
    /\ deliveries[d].table = "subscriptionPayments"
    /\ deliveries[d].id = p
    /\ deliveries[d].stored[1].status = "pending"

\* C17: two overlapping deliveries of the same approved payment webhook can
\* both read the subscription payment as pending; when they do (and no third
\* delivery runs), both perform the status update and the activation, and the
\* tables end as one delivery leaves them: the subscription payment as the
\* update writes it, approved, and its subscription active.
C17_BothDeliveriesActivate ==
    \A a, b \in DeliveryIds, p \in SubscriptionPaymentIds :
        (/\ a # b
         /\ \A e \in DeliveryIds \ {a, b} : deliveries[e].pc = "idle"
         /\ ApprovedForPending(a, p)
         /\ ApprovedForPending(b, p)
         /\ deliveries[a].mpPayment = deliveries[b].mpPayment
         /\ deliveries[a].gatewayId = deliveries[b].gatewayId
         /\ deliveries[a].action = deliveries[b].action)
        => /\ deliveries[a].wrote /\ deliveries[b].wrote
           /\ deliveries[a].sideEffect = "activate subscription"
           /\ deliveries[b].sideEffect = "activate subscription"
           /\ subscriptionPayments[p].status = "approved"
           /\ subscriptionPayments[p] =
                  UpdatedRecord(deliveries[a].stored[1], "approved",
                                deliveries[a].gatewayId, deliveries[a].mpPayment,
                                deliveries[a].action, now)
           /\ subscriptions[subscriptionPayments[p].subscriptionId].status = "active"
           /\ \A q \in SubscriptionPaymentIds \ {p} :
                  subscriptionPayments[q].status = "pending"

\* both deliveries of the approved webhook of the second subscription payment
\* have read it as pending and have finished
C17_Witness ==
    /\ Len(subscriptionPayments) = MaxSubscriptions
    /\ ApprovedForPending(1, MaxSubscriptions)
    /\ ApprovedForPending(2, MaxSubscriptions)
    /\ deliveries[1].mpPayment = deliveries[2].mpPayment
    /\ deliveries[1].wrote /\ deliveries[2].wrote
    /\ deliveries[1].sideEffect = "activate subscription"
    /\ deliveries[2].sideEffect = "activate subscription"

\* C21: also when requests overlap, a booking changes status only from
\* confirmed or waitlist to cancelled, or from waitlist to confirmed; a
\* cancelled booking never changes status again.
C21_StatusChangesAllowed ==
    [][\A i \in BookingIds(bookings) :
        bookings'[i].status # bookings[i].status
        => \/ /\ bookings[i].status \in {"confirmed", "waitlist"}
              /\ bookings'[i].status = "cancelled"
           \/ /\ bookings[i].status = "waitlist"
              /\ bookings'[i].status = "confirmed"
      ]_vars

\* the cancels a and b of two confirmed bookings of one class have both
\* selected the same waitlisted booking and have both completed, while no
\* other request ran
SameRowSelected(a, b) ==
    /\ a # b
    /\ \A k \in CallIds \ {a, b} : calls[k].pc = "idle"
    /\ \A i \in {a, b} :
           /\ calls[i].op = "cancel"
           /\ calls[i].pc = "done"
           /\ calls[i].code = 200
           /\ calls[i].status = "confirmed"
    /\ calls[a].booking # calls[b].booking
    /\ calls[a].class = calls[b].class
    /\ calls[a].row # 0
    /\ calls[a].row = calls[b].row

\* C23: two overlapping cancels of two different confirmed bookings of a class
\* can select the same waitlisted booking and both promote it; then one
\* booking is promoted for the two freed seats: that booking is confirmed and
\* the class ends one seat below its capacity.
C23_OnePromotedForTwoSeats ==
    \A a, b \in CallIds :
        SameRowSelected(a, b)
        => /\ bookings[calls[a].row].status = "confirmed"
           /\ CountConfirmed(bookings, calls[a].class)
                  = capacity[calls[a].class] - 1

\* both cancels promoted the same booking and a second booking still waits
C23_Witness ==
    \E a, b \in CallIds :
        /\ SameRowSelected(a, b)
        /\ WaitlistBooking(bookings, calls[a].class) # {}
        /\ CountConfirmed(bookings, calls[a].class) < capacity[calls[a].class]

\* C24: when two deliveries for the same payment overlap and the gateway's
\* status changed between their fetches, then once both have completed the
\* stored status of the record is the mapped status of the later fetch.
C24_LatestStatusStored ==
    \A a, b \in DeliveryIds :
        (/\ a < b
         /\ \A k \in DeliveryIds \ {a, b} : deliveries[k].pc = "idle"
         /\ \A d \in {a, b} :
                /\ deliveries[d].pc = "done"
                /\ deliveries[d].code = 200
                /\ deliveries[d].table # "none"
         /\ deliveries[a].gatewayId = deliveries[b].gatewayId
         /\ deliveries[a].table = deliveries[b].table
         /\ deliveries[a].id = deliveries[b].id
         /\ deliveries[a].mpPayment.status # deliveries[b].mpPayment.status)
        => LET table == IF deliveries[b].table = "payments"
                        THEN payments ELSE subscriptionPayments
           IN  table[deliveries[b].id].status = deliveries[b].newStatus

\* ------------------------------------- claims on writes that fail
\* C22: when the activation of the subscription has failed after its
\* subscription payment was stored approved, and the same approved webhook has
\* been delivered again and processed, the subscription is active: no run ends
\* with the subscription payment approved and its subscription
\* pending_payment.
C22_RedeliveryActivates ==
    \A a, b \in DeliveryIds :
        (/\ a # b
         /\ \A k \in DeliveryIds : deliveries[k].pc \in {"idle", "done"}
         /\ deliveries[a].pc = "done"
         /\ deliveries[a].failed = "activate"
         /\ deliveries[b].pc = "done"
         /\ deliveries[b].failed = "none"
         /\ deliveries[b].gatewayId = deliveries[a].gatewayId
         /\ deliveries[b].mpPayment = deliveries[a].mpPayment
         /\ deliveries[b].table = "subscriptionPayments"
         /\ deliveries[b].id = deliveries[a].id
         /\ deliveries[b].stored[1].status = "approved"
         /\ subscriptionPayments[deliveries[a].id].status = "approved")
        => subscriptions[subscriptionPayments[deliveries[a].id].subscriptionId].status
               # "pending_payment"

\* ------------------------------------- further claims on payments
\* C25: a payment webhook sets a subscription to active only when the
\* subscription is pending_payment: a cancelled or expired subscription is
\* never set to active by a webhook for one of its subscription payments.
C25_ActivationOnlyFromPendingPayment ==
    \A gatewayId \in GatewayIds, action \in WebhookActions,
       mpPayment \in GatewayAnswers(now) :
        LET after == WebhookResult(DB, "payment", gatewayId, action, mpPayment,
                                   now).outcome.db
        IN  \A s \in SubscriptionIds :
                (/\ after.subscriptions[s].status = "active"
                 /\ subscriptions[s].status # "active")
                => subscriptions[s].status = "pending_payment"

\* ------------------------------------- further claims on bookings
\* C26: when requests run one at a time and capacities do not change, a class
\* with a waitlisted booking has as many confirmed bookings as its capacity:
\* no seat stays free while a booking of the class waits.
C26_NoFreeSeatWhileWaiting ==
    \A c \in ClassIds :
        WaitlistBooking(bookings, c) # {}
        => CountConfirmed(bookings, c) = capacity[c]

\* a confirmed booking of a full class was cancelled, a waitlisted booking took
\* its seat and another booking of the class still waits
C26_Witness ==
    /\ bookingResponse.op = "cancel"
    /\ bookingResponse.code = 200
    /\ bookingResponse.prior = "confirmed"
    /\ bookingResponse.promoted # 0
    /\ LET c == bookings[bookingResponse.id].classId IN
       /\ capacity[c] = MaxCapacity
       /\ WaitlistBooking(bookings, c) # {}

\* the status stored on the record a reference selects: the subscription
\* payment of that id, else the payment of that id, else nothing
StoredStatus(ref) ==
    IF SelectById(subscriptionPayments, ref) # {}
    THEN {subscriptionPayments[id].status : id \in SelectById(subscriptionPayments, ref)}
    ELSE {payments[id].status : id \in SelectById(payments, ref)}

\* C27: a payment webhook whose mapped gateway status is the status already
\* stored on the matched payment or subscription payment writes nothing: the
\* status, gateway payment id, paid timestamp, updatedAt and metadata of every
\* record are as before and no subscription is modified.
C27_SameStatusWritesNothing ==
    \A gatewayId \in GatewayIds, action \in WebhookActions,
       mpPayment \in GatewayPayments(now) :
        LET result == WebhookResult(DB, "payment", gatewayId, action, mpPayment, now)
            newStatus == MapMercadoPagoStatus(StatusOrPending(mpPayment.status))
        IN  newStatus \in StoredStatus(ParseInt(mpPayment.external_reference))
            => /\ result.outcome.db = DB
               /\ result.outcome.sideEffect = "none"
               /\ result.code = 200

\* a webhook found its mapped status already stored on a one-off payment that
\* an earlier webhook had cancelled
C27_Witness ==
    /\ paymentResponse.op = "webhook"
    /\ paymentResponse.code = 200
    /\ paymentResponse.log = "payment unchanged"
    /\ \E p \in PaymentIds :
           /\ payments[p].status = "cancelled"
           /\ payments[p].mercadopagoId # <<>>

\* C28: a webhook modifies a subscription only when it is a payment webhook
\* whose mapped status is approved and whose matched subscription payment was
\* stored with a status other than approved; a webhook whose mapped status is
\* pending, cancelled or refunded leaves every subscription unchanged.
C28_SubscriptionsChangeOnlyOnApprovalEdge ==
    \A type \in WebhookTypes, gatewayId \in GatewayIds, action \in WebhookActions,
       mpPayment \in GatewayAnswers(now) :
        LET after == WebhookResult(DB, type, gatewayId, action, mpPayment,
                                   now).outcome.db
            newStatus == MapMercadoPagoStatus(StatusOrPending(mpPayment.status))
            found == SelectById(subscriptionPayments,
                                ParseInt(mpPayment.external_reference))
        IN  after.subscriptions # subscriptions
            => /\ type = "payment"
               /\ mpPayment.result = "payment"
               /\ newStatus = "approved"
               /\ \E id \in found : subscriptionPayments[id].status # "approved"

\* a webhook has stored the mapped status cancelled on a subscription payment
\* and the subscription is still pending_payment
C28_Witness ==
    /\ paymentResponse.op = "webhook"
    /\ paymentResponse.log = "subscription payment updated"
    /\ paymentResponse.sideEffect = "none"
    /\ \E p \in SubscriptionPaymentIds :
           /\ subscriptionPayments[p].status = "cancelled"
           /\ subscriptionPayments[p].metadata.mercadopago_status = "rejected"
           /\ subscriptions[subscriptionPayments[p].subscriptionId].status
                  = "pending_payment"

\* ------------------------------------- further claims on writes that fail
\* C29: when a database write of a delivery fails, the update of the payment
\* record or the activation of the subscription, the webhook answers 500.
C29_FailedWriteAnswers500 ==
    \A d \in DeliveryIds :
        (deliveries[d].pc = "done" /\ deliveries[d].failed # "none")
        => deliveries[d].code = 500

\* ------------------------------------- further claims on the update
\* C30: a payment webhook that changes the status of a payment or subscription
\* payment while the gateway reports no approval date leaves the paid
\* timestamp of the record as it was stored.
C30_PaidTimestampKeptWithoutDate ==
    \A gatewayId \in GatewayIds, action \in WebhookActions,
       mpPayment \in GatewayPayments(now) :
        LET after == WebhookResult(DB, "payment", gatewayId, action, mpPayment,
                                   now).outcome.db
            ref == ParseInt(mpPayment.external_reference)
            newStatus == MapMercadoPagoStatus(StatusOrPending(mpPayment.status))
        IN  mpPayment.date_approved = <<>>
            => /\ \A id \in SelectById(subscriptionPayments, ref) :
                      StatusChanged(subscriptionPayments[id].status, newStatus)
                      => after.subscriptionPayments[id].paidAt
                             = subscriptionPayments[id].paidAt
               /\ \A id \in SelectById(payments, ref) :
                      StatusChanged(payments[id].status, newStatus)
                      => after.payments[id].paidAt = payments[id].paidAt

====
